---- MODULE Spec2Model ----
(***************************************************************************)
(* A model of the DeepLake vector store facade                             *)
(* (deeplake/core/vectorstore/deeplake_vectorstore.py) and of its          *)
(* filtering utilities (deeplake/core/vectorstore/vector_search/filter/    *)
(* filter.py).                                                             *)
(*                                                                         *)
(* Python values are tagged records, so that comparisons between values of *)
(* different Python types are decided by the tag, as Python decides them.  *)
(* A Python str is a sequence of one-character strings; a Python dict is   *)
(* the sequence of its <<key, value>> items in insertion order; a dataset  *)
(* view is the sequence of the 0-based sample indices it holds.            *)
(***************************************************************************)
EXTENDS Integers, Sequences, FiniteSets, TLC

\* ------------------------------------------------------------------------
\* Bounds of the model
\* ------------------------------------------------------------------------
MaxRows == 2
MaxIds == 2
MaxKeys == 2
MaxTensors == 2

\* ------------------------------------------------------------------------
\* Python values
\* ------------------------------------------------------------------------
None == [t |-> "none"]
PyStr(s) == [t |-> "str", v |-> s]
PyInt(n) == [t |-> "int", v |-> n]
PyBool(b) == [t |-> "bool", v |-> b]
PyList(s) == [t |-> "list", v |-> s]
PyDict(d) == [t |-> "dict", v |-> d]
PyFunc(f) == [t |-> "function", v |-> f]

\* a == b between two Python values
PyEq(a, b) == a.t = b.t /\ (a.t = "none" \/ a.v = b.v)

\* bool(a): None, False, 0, "", [] and {} are falsy
Truthy(a) ==
    CASE a.t = "none" -> FALSE
      [] a.t = "bool" -> a.v
      [] a.t = "int" -> a.v # 0
      [] a.t \in {"str", "list", "dict"} -> Len(a.v) > 0
      [] OTHER -> TRUE

\* a in l, for a list l of Python values
PyIn(a, l) == \E i \in 1..Len(l) : PyEq(a, l[i])

\* s[:-n] for n > 0
DropLast(s, n) == IF Len(s) > n THEN SubSeq(s, 1, Len(s) - n) ELSE <<>>

\* q in s, for two strings
IsSubstring(q, s) == \E i \in 0..(Len(s) - Len(q)) : SubSeq(s, i + 1, i + Len(q)) = q

Digit(d) == <<"0", "1", "2", "3", "4", "5", "6", "7", "8", "9">>[d + 1]

RECURSIVE NatStr(_)
NatStr(n) == IF n < 10 THEN <<Digit(n)>> ELSE NatStr(n \div 10) \o <<Digit(n % 10)>>

\* f"{value}"
Format(value) ==
    CASE value.t = "str" -> value.v
      [] value.t = "int" -> IF value.v < 0 THEN <<"-">> \o NatStr(-value.v) ELSE NatStr(value.v)
      [] value.t = "none" -> <<"N", "o", "n", "e">>
      [] value.t = "bool" -> IF value.v THEN <<"T", "r", "u", "e">> ELSE <<"F", "a", "l", "s", "e">>

\* the characters of a tensor name or of a metadata key (a one-character
\* name is its own character)
Chars(name) ==
    CASE name = "metadata" -> <<"m", "e", "t", "a", "d", "a", "t", "a">>
      [] name = "extra" -> <<"e", "x", "t", "r", "a">>
      [] OTHER -> <<name>>

\* dict operations, on the sequence of items
DictHas(d, k) == \E i \in 1..Len(d) : d[i][1] = k
DictGet(d, k) == d[CHOOSE i \in 1..Len(d) : d[i][1] = k][2]

\* outcomes of a call
Ret(v) == [kind |-> "return", val |-> v]
Raise(e, m) == [kind |-> "raise", exc |-> e, msg |-> m]

\* ------------------------------------------------------------------------
\* vector_search/filter/filter.py
\* ------------------------------------------------------------------------

\* a view of the dataset rows ds holding the sample indices idx
View(ds, idx) == [ds |-> ds, idx |-> idx]
WholeView(ds) == View(ds, [i \in 1..Len(ds) |-> i - 1])

\* the sample indices of a view, as a set
Indices(view) == {view.idx[i] : i \in 1..Len(view.idx)}

\* view.filter(P), given at[n], the outcome of P on the row of sample index n:
\* the rows of the view on which P is truthy, in view order; an exception
\* raised by P on a row ends the filtering
ViewFilter(view, at) ==
    LET bad == {i \in 1..Len(view.idx) : at[view.idx[i]].kind = "raise"}
    IN  IF bad # {}
        THEN at[view.idx[CHOOSE i \in bad : \A j \in bad : i <= j]]
        ELSE Ret(View(view.ds, SelectSeq(view.idx, LAMBDA n : Truthy(at[n].val))))

\* list(view.sample_indices)
SampleIndices(view) == PyList([i \in 1..Len(view.idx) |-> PyInt(view.idx[i])])

\* all(k in metadata and v == metadata[k] for k, v in items)
AllMatch(metadata, items) ==
    \A i \in 1..Len(items) :
        DictHas(metadata.v, items[i][1]) /\ PyEq(items[i][2], DictGet(metadata.v, items[i][1]))

RECURSIVE dp_filter_loop(_, _, _, _)
dp_filter_loop(x, filter, i, result) ==
    IF i > Len(filter) THEN Ret(result)
    ELSE LET tensor == filter[i][1] IN
         IF ~DictHas(x, tensor) THEN Raise("KeyError", Chars(tensor))
         ELSE dp_filter_loop(x, filter, i + 1,
                  IF Truthy(result)
                  THEN PyBool(AllMatch(DictGet(x, tensor), filter[i][2].v))
                  ELSE result)

dp_filter_python(x, filter) ==
    IF filter.t # "dict" THEN Raise("AttributeError", <<>>)
    ELSE dp_filter_loop(x, filter.v, 1, PyList([i \in 1..Len(x) |-> 1]))

\* a caller-supplied predicate (a function compatible with deeplake.filter),
\* applied to a row
Udf(f, x) ==
    CASE f = "ids_is_a" -> Ret(PyBool(PyEq(DictGet(x, "ids"), PyStr(<<"a">>))))
      [] OTHER -> Ret(PyBool(TRUE))

\* the result carries the calls made on the way: log
attribute_based_filtering_python(view, filter) ==
    IF filter.t # "none"
    THEN IF filter.t = "dict"
         THEN [out |-> ViewFilter(view, [n \in Indices(view) |->
                                            dp_filter_python(view.ds[n + 1], filter)]),
               log |-> <<"filter">>]
         ELSE [out |-> ViewFilter(view, [n \in Indices(view) |-> Udf(filter.v, view.ds[n + 1])]),
               log |-> <<"filter">>]
    ELSE [out |-> Ret(view), log |-> <<>>]

\* val_str = f"'{value}'" if type(value) == str else f"{value}"
val_str(value) ==
    IF value.t = "str" THEN <<"'">> \o Format(value) \o <<"'">> ELSE Format(value)

\* f"{tensor}['{key}'] == {val_str} and "
tql_clause(tensor, key, value) ==
    Chars(tensor) \o <<"[", "'">> \o Chars(key) \o <<"'", "]", " ", "=", "=", " ">>
        \o val_str(value) \o <<" ", "a", "n", "d", " ">>

RECURSIVE tql_items(_, _, _, _)
tql_items(tensor, items, j, tql_filter) ==
    IF j > Len(items) THEN tql_filter
    ELSE tql_items(tensor, items, j + 1,
                   tql_filter \o tql_clause(tensor, items[j][1], items[j][2]))

RECURSIVE tql_tensors(_, _, _)
tql_tensors(filter, i, tql_filter) ==
    IF i > Len(filter) THEN tql_filter
    ELSE tql_tensors(filter, i + 1, tql_items(filter[i][1], filter[i][2].v, 1, tql_filter))

\* attribute_based_filtering_tql without the slice of line 49
attribute_based_filtering_tql_unsliced(view, logger, filter, debug_mode) ==
    LET tql_filter == IF filter.t # "none" /\ filter.t = "dict"
                      THEN tql_tensors(filter.v, 1, <<>>)
                      ELSE <<>>
    IN  [out |-> Ret(<<view, tql_filter>>),
         log |-> IF debug_mode THEN <<"logger.warning">> ELSE <<>>]

attribute_based_filtering_tql(view, logger, filter, debug_mode) ==
    LET tql_filter == IF filter.t # "none" /\ filter.t = "dict"
                      THEN DropLast(tql_tensors(filter.v, 1, <<>>), 5)
                      ELSE <<>>
    IN  IF debug_mode
        THEN IF logger.t = "logger"
             THEN [out |-> Ret(<<view, tql_filter>>), log |-> <<"logger.warning">>]
             ELSE [out |-> Raise("AttributeError", <<>>), log |-> <<>>]
        ELSE [out |-> Ret(<<view, tql_filter>>), log |-> <<>>]

\* lambda x: query in x["text"].data()["value"]
text_contains(query, x) ==
    IF query.t # "str" THEN Raise("TypeError", <<>>)
    ELSE Ret(PyBool(IsSubstring(query.v, DictGet(x, "text").v)))

PyFloat(n) == [t |-> "float", v |-> n]

\* exact_text_search with an empty list, not None, as the index of no match
exact_text_search_empty_index(view, query) ==
    LET f == ViewFilter(view, [n \in Indices(view) |->
                                  text_contains(query, view.ds[n + 1])])
    IN
    IF f.kind = "raise" THEN [out |-> f, log |-> <<"filter">>]
    ELSE [out |-> Ret(<<f.val, PyList([i \in 1..Len(f.val.idx) |-> PyFloat(1)]),
                        SampleIndices(f.val)>>),
          log |-> IF Len(f.val.idx) = 0 THEN <<"filter", "always_warn">> ELSE <<"filter">>]

exact_text_search(view, query) ==
    LET f == ViewFilter(view, [n \in Indices(view) |->
                                  text_contains(query, view.ds[n + 1])])
    IN
    IF f.kind = "raise" THEN [out |-> f, log |-> <<"filter">>]
    ELSE LET scores == PyList([i \in 1..Len(f.val.idx) |-> PyFloat(1)]) IN
         IF Len(f.val.idx) = 0
         THEN [out |-> Ret(<<f.val, scores, None>>), log |-> <<"filter", "always_warn">>]
         ELSE [out |-> Ret(<<f.val, scores, SampleIndices(f.val)>>), log |-> <<"filter">>]

\* the backquote character, which a string of this language cannot hold
Backtick == "backquote"

\* ids_that_doesnt_exist += f"`{id}`, "
RECURSIVE ids_loop(_, _, _, _)
ids_loop(ids, filtered_ids, i, ids_that_doesnt_exist) ==
    IF i > Len(ids) THEN ids_that_doesnt_exist
    ELSE ids_loop(ids, filtered_ids, i + 1,
                  IF ~PyIn(ids[i], filtered_ids)
                  THEN ids_that_doesnt_exist \o <<Backtick>> \o Format(ids[i])
                           \o <<Backtick, ",", " ">>
                  ELSE ids_that_doesnt_exist)

get_ids_that_does_not_exist(ids, filtered_ids) ==
    DropLast(ids_loop(ids.v, filtered_ids.v, 1, <<>>), 2)

get_id_indices(dataset, ids) ==
    LET view == ViewFilter(dataset, [n \in Indices(dataset) |->
                                    Ret(PyBool(PyIn(DictGet(dataset.ds[n + 1], "ids"), ids.v)))])
        filtered_ids == SampleIndices(view.val)
    IN  IF Len(filtered_ids.v) # Len(ids.v)
        THEN [out |-> Raise("ValueError", get_ids_that_does_not_exist(ids, filtered_ids)),
              log |-> <<"filter">>]
        ELSE [out |-> Ret(filtered_ids), log |-> <<"filter">>]

get_filtered_ids(dataset, filter) ==
    LET view == ViewFilter(dataset, [n \in Indices(dataset) |->
                                    dp_filter_python(dataset.ds[n + 1], filter)]) IN
    IF view.kind = "raise" THEN [out |-> view, log |-> <<"filter">>]
    ELSE IF Len(view.val.idx) = 0
         THEN [out |-> Raise("ValueError", <<"does not exist in the dataset.">>),
               log |-> <<"filter">>]
         ELSE [out |-> Ret(SampleIndices(view.val)), log |-> <<"filter">>]

\* get_converted_ids without the check of lines 115-116
get_converted_ids_unchecked(dataset, filter, ids) ==
    IF Truthy(ids)
    THEN get_id_indices(dataset, ids)
    ELSE get_filtered_ids(dataset, filter)

get_converted_ids(dataset, filter, ids) ==
    IF Truthy(ids) /\ Truthy(filter)
    THEN [out |-> Raise("ValueError", <<"Either filter or ids should be specified.">>),
          log |-> <<>>]
    ELSE IF Truthy(ids)
         THEN get_id_indices(dataset, ids)
         ELSE get_filtered_ids(dataset, filter)

\* ------------------------------------------------------------------------
\* helpers of vector_search/utils.py, vector_search/dataset.py and of the
\* search execution engine, which deeplake_vectorstore.py calls
\* ------------------------------------------------------------------------
Delegated == {PyStr(<<"compute_engine">>), PyStr(<<"tensor_db">>)}
ExecOptions == {PyStr(<<"python">>)} \cup Delegated

get_embedding(embedding, prompt, embedding_function) ==
    IF embedding.t # "none" THEN Ret(embedding)
    ELSE IF embedding_function.t # "none" /\ prompt.t # "none"
         THEN Ret([t |-> "ndarray", v |-> <<embedding_function.v, prompt.v>>])
         ELSE Raise("InvalidInput", <<>>)

get_runtime_from_exec_option(exec_option) == [t |-> "runtime", v |-> exec_option.v]

check_indra_installation(exec_option, indra_installed) ==
    IF exec_option \in Delegated /\ ~indra_installed
    THEN Raise("CapabilityMissing", exec_option.v)
    ELSE Ret(None)

delete_all_samples_if_specified(ds, delete_all) ==
    IF Truthy(delete_all) THEN <<<<>>, TRUE>> ELSE <<ds, FALSE>>

\* the rows of ds without those at the sample indices ids
delete_and_commit(ds, ids) ==
    LET keep == SelectSeq([i \in 1..Len(ds) |-> i - 1], LAMBDA n : ~PyIn(PyInt(n), ids.v))
    IN  [i \in 1..Len(keep) |-> ds[keep[i] + 1]]

\* ------------------------------------------------------------------------
\* deeplake_vectorstore.py: DeepLakeVectorStore
\* ------------------------------------------------------------------------
Omitted == [t |-> "omitted"]
Unbound == [t |-> "unbound"]
NoRanking == [fn |-> "none"]

\* a parameter's value: the argument, or the signature's default
Param(arg, default) == IF arg.t = "omitted" THEN default ELSE arg

\* distance_metric.lower(), on the metric names
Lower(metric) ==
    CASE metric = PyStr(<<"L1">>) -> PyStr(<<"l1">>)
      [] metric = PyStr(<<"L2">>) -> PyStr(<<"l2">>)
      [] metric = PyStr(<<"COS">>) -> PyStr(<<"cos">>)
      [] metric = PyStr(<<"MAX">>) -> PyStr(<<"max">>)
      [] OTHER -> metric

\* the python branch of search, lines 175-196
search_python(self, a, exec_option, query_emb, log) ==
    IF a.query.t # "none"
    THEN [out |-> Raise("NotImplementedError", <<"query">>), log |-> log,
          exec_option |-> exec_option, ranking |-> NoRanking]
    ELSE LET f == attribute_based_filtering_python(WholeView(self.dataset), a.filter) IN
         IF f.out.kind = "raise"
         THEN [out |-> f.out, log |-> log \o f.log, exec_option |-> exec_option,
               ranking |-> NoRanking]
         ELSE IF query_emb.t = "unbound"
              THEN [out |-> Raise("UnboundLocalError", <<"query_emb">>),
                    log |-> log \o f.log \o <<"fetch_embeddings">>,
                    exec_option |-> exec_option, ranking |-> NoRanking]
              ELSE [out |-> Ret([t |-> "results", v |-> "python_vector_search"]),
                    log |-> log \o f.log \o <<"fetch_embeddings", "python_vector_search">>,
                    exec_option |-> exec_option,
                    ranking |-> [fn |-> "python_vector_search",
                                 deeplake_dataset |-> f.out.val,
                                 query_embedding |-> query_emb,
                                 distance_metric |-> Lower(a.distance_metric),
                                 k |-> a.k]]

\* type(filter) == Callable: the type of a value is a class, and
\* typing.Callable is not one, so the two are never equal
TypeIsCallable(filter) == FALSE

\* the delegated branch of search, lines 197-224
search_delegated(self, a, exec_option, query_emb, runtime, log) ==
    IF TypeIsCallable(a.filter)
    THEN [out |-> Raise("NotImplementedError", <<"UDF">>), log |-> log,
          exec_option |-> exec_option, ranking |-> NoRanking]
    ELSE IF Truthy(a.query) /\ Truthy(a.filter)
    THEN [out |-> Raise("NotImplementedError", <<"query and filter">>), log |-> log,
          exec_option |-> exec_option, ranking |-> NoRanking]
    ELSE LET c == check_indra_installation(exec_option, self._INDRA_INSTALLED) IN
         IF c.kind = "raise"
         THEN [out |-> c, log |-> log, exec_option |-> exec_option, ranking |-> NoRanking]
         ELSE \* the call passes (self.dataset, filter): filter binds to the
              \* second parameter, logger, and the parameter filter keeps its
              \* default, None
              LET t == attribute_based_filtering_tql(WholeView(self.dataset), a.filter,
                                                     None, FALSE)
              IN  IF query_emb.t = "unbound"
                  THEN [out |-> Raise("UnboundLocalError", <<"query_emb">>),
                        log |-> log \o t.log, exec_option |-> exec_option,
                        ranking |-> NoRanking]
                  ELSE [out |-> Ret([t |-> "results", v |-> "vector_search"]),
                        log |-> log \o t.log \o <<"vector_search">>,
                        exec_option |-> exec_option,
                        ranking |-> [fn |-> "vector_search",
                                     query_embedding |-> query_emb,
                                     distance_metric |-> Lower(a.distance_metric),
                                     deeplake_dataset |-> t.out.val[1],
                                     k |-> a.k,
                                     tql_string |-> a.query,
                                     tql_filter |-> t.out.val[2],
                                     embedding_tensor |-> a.embedding_tensor,
                                     runtime |-> runtime]]

\* lines 173-224, once the query embedding is computed (or was not)
search_dispatch(self, a, exec_option, query_emb, log) ==
    LET runtime == get_runtime_from_exec_option(exec_option) IN
    IF exec_option = PyStr(<<"python">>)
    THEN search_python(self, a, exec_option, query_emb, log)
    ELSE search_delegated(self, a, exec_option, query_emb, runtime, log)

\* DeepLakeVectorStore.search, with its parameters bound in a
search_run(self, a) ==
    LET exec_option == IF Truthy(a.exec_option) THEN a.exec_option ELSE self._exec_option IN
    IF exec_option \notin ExecOptions
    THEN [out |-> Raise("ValueError", <<"exec_option">>), log |-> <<>>,
          exec_option |-> exec_option, ranking |-> NoRanking]
    ELSE IF a.embedding_function.t = "none" /\ a.embedding.t = "none"
         THEN LET r == exact_text_search(WholeView(self.dataset), a.prompt) IN
              IF r.out.kind = "raise"
              THEN [out |-> r.out, log |-> <<"exact_text_search">> \o r.log,
                    exec_option |-> exec_option, ranking |-> NoRanking]
              ELSE search_dispatch(self, a, exec_option, Unbound,
                                   <<"exact_text_search">> \o r.log)
         ELSE LET e == get_embedding(a.embedding, a.prompt, a.embedding_function) IN
              IF e.kind = "raise"
              THEN [out |-> e, log |-> <<"get_embedding">>, exec_option |-> exec_option,
                    ranking |-> NoRanking]
              ELSE search_dispatch(self, a, exec_option, e.val, <<"get_embedding">>)

\* delete deleting the rows found before the resolution of line 247 is
\* known to have succeeded: the rows of the requested ids go even when the
\* request is refused
delete_run_deleting_found_rows(self, a) ==
    LET d == delete_all_samples_if_specified(self.dataset, a.delete_all) IN
    IF d[2]
    THEN [out |-> Ret(PyBool(TRUE)), log |-> <<"delete_all_samples_if_specified">>,
          dataset |-> d[1], dropped |-> TRUE]
    ELSE LET ids == get_converted_ids(WholeView(d[1]), a.filter, a.ids)
             found == SelectSeq([i \in 1..Len(d[1]) |-> i - 1],
                                LAMBDA n : /\ a.ids.t = "list"
                                           /\ PyIn(DictGet(d[1][n + 1], "ids"), a.ids.v))
         IN  IF ids.out.kind = "raise"
             THEN [out |-> ids.out,
                   log |-> <<"delete_all_samples_if_specified", "get_converted_ids">>
                              \o ids.log,
                   dataset |-> delete_and_commit(d[1], PyList([i \in 1..Len(found) |->
                                                                  PyInt(found[i])])),
                   dropped |-> FALSE]
             ELSE [out |-> Ret(PyBool(TRUE)),
                   log |-> <<"delete_all_samples_if_specified", "get_converted_ids">>
                              \o ids.log \o <<"delete_and_commit">>,
                   dataset |-> delete_and_commit(d[1], ids.out.val), dropped |-> FALSE]

\* delete without the early return of lines 244-245
delete_run_no_early_return(self, a) ==
    LET d == delete_all_samples_if_specified(self.dataset, a.delete_all)
        ids == get_converted_ids(WholeView(d[1]), a.filter, a.ids)
    IN  IF ids.out.kind = "raise"
        THEN [out |-> ids.out,
              log |-> <<"delete_all_samples_if_specified", "get_converted_ids">> \o ids.log,
              dataset |-> d[1], dropped |-> d[2]]
        ELSE [out |-> Ret(PyBool(TRUE)),
              log |-> <<"delete_all_samples_if_specified", "get_converted_ids">>
                         \o ids.log \o <<"delete_and_commit">>,
              dataset |-> delete_and_commit(d[1], ids.out.val), dropped |-> d[2]]

\* DeepLakeVectorStore.delete: the outcome, the calls made and the dataset left
delete_run(self, a) ==
    LET d == delete_all_samples_if_specified(self.dataset, a.delete_all) IN
    IF d[2]
    THEN [out |-> Ret(PyBool(TRUE)), log |-> <<"delete_all_samples_if_specified">>,
          dataset |-> d[1], dropped |-> TRUE]
    ELSE LET ids == get_converted_ids(WholeView(d[1]), a.filter, a.ids) IN
         IF ids.out.kind = "raise"
         THEN [out |-> ids.out,
               log |-> <<"delete_all_samples_if_specified", "get_converted_ids">> \o ids.log,
               dataset |-> d[1], dropped |-> FALSE]
         ELSE [out |-> Ret(PyBool(TRUE)),
               log |-> <<"delete_all_samples_if_specified", "get_converted_ids">>
                          \o ids.log \o <<"delete_and_commit">>,
               dataset |-> delete_and_commit(d[1], ids.out.val), dropped |-> FALSE]

\* ------------------------------------------------------------------------
\* The values the calls are made with
\* ------------------------------------------------------------------------
Min(a, b) == IF a < b THEN a ELSE b

\* the dicts of at most n items with keys in Keys and values in Vals
DictsOver(Keys, Vals, n) ==
    UNION {{d \in [1..m -> Keys \X Vals] : \A i, j \in 1..m : i # j => d[i][1] # d[j][1]} :
           m \in 0..Min(n, Cardinality(Keys))}

\* the sequences of at most n elements of S
SeqsUpTo(S, n) == UNION {[1..m -> S] : m \in 0..n}

StoredIds == {"a", "c"}
RequestIds == {"a", "b", "c"}
MetaKeys == {"k", "j"}
Tensors == {"metadata", "extra"}

\* a row of the default schema: text, metadata, embedding, ids
Row(id, text, metadata) ==
    << <<"text", PyStr(text)>>, <<"metadata", PyDict(metadata)>>,
       <<"embedding", [t |-> "ndarray", v |-> <<"stored">>]>>, <<"ids", PyStr(<<id>>)>> >>

Contents == { << <<"a", "b">>, << <<"k", PyStr(<<"v">>)>> >> >>, << <<"b">>, <<>> >> }
RowPool == {Row(id, c[1], c[2]) : id \in StoredIds, c \in Contents}
Datasets == SeqsUpTo(RowPool, MaxRows)

IdLists == {None} \cup {PyList(l) : l \in SeqsUpTo({PyStr(<<id>>) : id \in RequestIds}, MaxIds)}

StoreFilters ==
    {None, PyDict(<<>>), PyDict(<< <<"metadata", PyDict(<< <<"k", PyStr(<<"v">>)>> >>)>> >>)}

\* ------------------------------------------------------------------------
\* The store: one object of DeepLakeVectorStore and the calls made on it
\* ------------------------------------------------------------------------
VARIABLES dataset, dropped, _exec_option, _INDRA_INSTALLED, call

vars == <<dataset, dropped, _exec_option, _INDRA_INSTALLED, call>>

NoCall == [op |-> "none"]

Self == [dataset |-> dataset, _exec_option |-> _exec_option,
         _INDRA_INSTALLED |-> _INDRA_INSTALLED]

\* the module is imported (indra is there or is not) and the store is
\* constructed on a new dataset
Init ==
    /\ dataset = <<>>
    /\ dropped = FALSE
    /\ _exec_option \in ExecOptions
    /\ _INDRA_INSTALLED \in BOOLEAN
    /\ call = NoCall

\* add(texts=[text], metadatas=[metadata], ids=[id] or None): one record is
\* normalised (its id generated when ids is None), ingested and committed
add ==
    /\ call = NoCall /\ ~dropped
    /\ Len(dataset) < MaxRows
    /\ \E id \in StoredIds, c \in Contents, given \in BOOLEAN :
          /\ dataset' = Append(dataset, Row(id, c[1], c[2]))
          /\ call' = [op |-> "add",
                      args |-> [texts |-> PyList(<<PyStr(c[1])>>),
                                metadatas |-> PyList(<<PyDict(c[2])>>),
                                ids |-> IF given THEN PyList(<<PyStr(<<id>>)>>) ELSE None],
                      out |-> Ret(PyList(<<PyStr(<<id>>)>>)),
                      log |-> <<"preprocess_tensors", "extend_or_ingest_dataset", "commit">>]
    /\ UNCHANGED <<dropped, _exec_option, _INDRA_INSTALLED>>

\* the embedding sources of a search: <<prompt, embedding_function, embedding>>
Sources ==
    {<<None, None, None>>, <<PyStr(<<"a">>), None, None>>,
     <<PyStr(<<"a">>), PyFunc("embed"), None>>, <<None, PyFunc("embed"), None>>,
     <<None, None, PyList(<<1, 0>>)>>}

SearchFilters ==
    {None, PyDict(<<>>),
     PyDict(<< <<"metadata", PyDict(<< <<"k", PyStr(<<"v">>)>> >>)>> >>),
     PyFunc("ids_is_a")}

ExecArgs == {Omitted, None, PyStr(<<"gpu">>)} \cup ExecOptions

search ==
    /\ call = NoCall /\ ~dropped
    /\ \E src \in Sources, query \in {None, PyStr(<<"q">>)}, filter \in SearchFilters,
          exec_option \in ExecArgs :
          LET a == [prompt |-> src[1], embedding_function |-> src[2], embedding |-> src[3],
                    k |-> Param(Omitted, PyInt(4)),
                    distance_metric |-> Param(Omitted, PyStr(<<"L2">>)),
                    query |-> query, filter |-> filter,
                    exec_option |-> Param(exec_option, PyStr(<<"python">>)),
                    embedding_tensor |-> Param(Omitted, PyStr(<<"embedding">>))]
              r == search_run(Self, a)
          IN  call' = [op |-> "search", args |-> a, passed |-> exec_option, out |-> r.out,
                       log |-> r.log, exec_option |-> r.exec_option, ranking |-> r.ranking]
    /\ UNCHANGED <<dataset, dropped, _exec_option, _INDRA_INSTALLED>>

delete ==
    /\ call = NoCall /\ ~dropped
    /\ \E ids \in IdLists, filter \in StoreFilters,
          delete_all \in {None, PyBool(FALSE), PyBool(TRUE)} :
          LET a == [ids |-> ids, filter |-> filter, delete_all |-> delete_all]
              r == delete_run(Self, a)
          IN  /\ dataset' = r.dataset
              /\ dropped' = r.dropped
              /\ call' = [op |-> "delete", args |-> a, before |-> dataset, out |-> r.out,
                          log |-> r.log]
    /\ UNCHANGED <<_exec_option, _INDRA_INSTALLED>>

\* the call returns to its caller, which makes the next one
Return ==
    /\ call # NoCall
    /\ call' = NoCall
    /\ UNCHANGED <<dataset, dropped, _exec_option, _INDRA_INSTALLED>>

Next == add \/ search \/ delete \/ Return

Spec == Init /\ [][Next]_vars

\* ------------------------------------------------------------------------
\* The functions of filter.py, each applied once to arguments drawn from
\* bounded sets
\* ------------------------------------------------------------------------
Pending == [kind |-> "pending"]
Logger == [t |-> "logger"]

\* the filters {tensor: {key: value}} with values in Vals
DictFilters(Vals) ==
    {PyDict(f) :
        f \in DictsOver(Tensors, {PyDict(d) : d \in DictsOver(MetaKeys, Vals, MaxKeys)},
                        MaxTensors)}

MatchValues == {PyStr(<<"v">>), PyInt(2)}
TqlValues == {PyStr(<<"v">>), PyStr(<<>>), PyInt(2), PyInt(10)}

\* the rows dp_filter_python is applied to: no column, a metadata column, a
\* metadata and an extra column
RowDicts ==
    {<<>>}
    \cup {<< <<"metadata", PyDict(m)>> >> : m \in DictsOver(MetaKeys, MatchValues, MaxKeys)}
    \cup {<< <<"metadata", PyDict(m)>>, <<"extra", PyDict(n)>> >> :
             m \in DictsOver(MetaKeys, MatchValues, 1), n \in DictsOver(MetaKeys, MatchValues, 1)}

\* the views of the rows ds: sample indices in increasing order
SubViews(ds) ==
    {View(ds, idx) : idx \in {s \in SeqsUpTo(0..(Len(ds) - 1), Len(ds)) :
                                 \A i, j \in 1..Len(s) : i < j => s[i] < s[j]}}

TextQueries ==
    {None, PyStr(<<>>), PyStr(<<"a">>), PyStr(<<"b">>), PyStr(<<"a", "b">>), PyStr(<<"b", "a">>)}

PendingCall(op, args) == [op |-> op, args |-> args, out |-> Pending, log |-> <<>>]

\* the arguments of the one call are drawn here
InitF ==
    /\ dataset = <<>>
    /\ dropped = FALSE
    /\ _exec_option = PyStr(<<"python">>)
    /\ _INDRA_INSTALLED = FALSE
    /\ \/ \E x \in RowDicts, f \in DictFilters(MatchValues) :
             call = PendingCall("dp_filter_python", [x |-> x, filter |-> f])
       \/ \E f \in DictFilters(TqlValues) \cup {None, PyFunc("ids_is_a")}, d \in BOOLEAN :
             call = PendingCall("attribute_based_filtering_tql",
                                [view |-> WholeView(<<>>), logger |-> Logger, filter |-> f,
                                 debug_mode |-> d])
       \/ \E ds \in Datasets : \E v \in SubViews(ds), q \in TextQueries :
             call = PendingCall("exact_text_search", [view |-> v, query |-> q])
       \/ \E ds \in Datasets, ids \in IdLists \ {None} :
             call = PendingCall("get_id_indices", [dataset |-> WholeView(ds), ids |-> ids])
       \/ \E ds \in Datasets, f \in StoreFilters, ids \in IdLists :
             call = PendingCall("get_converted_ids",
                                [dataset |-> WholeView(ds), filter |-> f, ids |-> ids])

Called(op) == call.op = op /\ call.out = Pending

Done(op) == call.op = op /\ call.out # Pending

Apply_dp_filter_python ==
    /\ Called("dp_filter_python")
    /\ call' = [call EXCEPT !.out = dp_filter_python(call.args.x, call.args.filter)]
    /\ UNCHANGED <<dataset, dropped, _exec_option, _INDRA_INSTALLED>>

Apply_attribute_based_filtering_tql ==
    /\ Called("attribute_based_filtering_tql")
    /\ LET r == attribute_based_filtering_tql(call.args.view, call.args.logger,
                                              call.args.filter, call.args.debug_mode)
       IN  call' = [call EXCEPT !.out = r.out, !.log = r.log]
    /\ UNCHANGED <<dataset, dropped, _exec_option, _INDRA_INSTALLED>>

Apply_exact_text_search ==
    /\ Called("exact_text_search")
    /\ LET r == exact_text_search(call.args.view, call.args.query)
       IN  call' = [call EXCEPT !.out = r.out, !.log = r.log]
    /\ UNCHANGED <<dataset, dropped, _exec_option, _INDRA_INSTALLED>>

Apply_get_id_indices ==
    /\ Called("get_id_indices")
    /\ LET r == get_id_indices(call.args.dataset, call.args.ids)
       IN  call' = [call EXCEPT !.out = r.out, !.log = r.log]
    /\ UNCHANGED <<dataset, dropped, _exec_option, _INDRA_INSTALLED>>

Apply_get_converted_ids ==
    /\ Called("get_converted_ids")
    /\ LET r == get_converted_ids(call.args.dataset, call.args.filter, call.args.ids)
       IN  call' = [call EXCEPT !.out = r.out, !.log = r.log]
    /\ UNCHANGED <<dataset, dropped, _exec_option, _INDRA_INSTALLED>>

NextF ==
    \/ Apply_dp_filter_python
    \/ Apply_attribute_based_filtering_tql
    \/ Apply_exact_text_search
    \/ Apply_get_id_indices
    \/ Apply_get_converted_ids

SpecFilter == InitF /\ [][NextF]_vars

\* ------------------------------------------------------------------------
\* Properties of the store (specification Spec)
\* ------------------------------------------------------------------------

\* the filter has at least one key/value pair
HasPair(filter) ==
    filter.t = "dict" /\ \E i \in 1..Len(filter.v) : Len(filter.v[i][2].v) > 0

\* the query-language fragment of a filter
Fragment(filter) ==
    attribute_based_filtering_tql(WholeView(<<>>), Logger, filter, FALSE).out.val[2]

\* C1: in a delegated search, the fragment the delegated vector search
\* receives for a mapping filter with at least one key/value pair is the
\* non-empty fragment built from that filter.
C1_FragmentReachesEngine ==
    (/\ call.op = "search"
     /\ call.exec_option \in Delegated
     /\ HasPair(call.args.filter)
     /\ call.ranking.fn = "vector_search")
    => /\ call.ranking.tql_filter = Fragment(call.args.filter)
       /\ call.ranking.tql_filter # <<>>

\* C2: in a delegated search, a callable filter is rejected with
\* NotImplementedError and the delegated engine is not invoked (stated for
\* the calls that supply an embedding, with the native engine installed, so
\* that no other failure comes first).
C2_CallableRejected ==
    (/\ call.op = "search"
     /\ call.exec_option \in Delegated
     /\ call.args.filter.t = "function"
     /\ call.args.embedding.t # "none"
     /\ _INDRA_INSTALLED)
    => /\ call.out.kind = "raise"
       /\ call.out.exc = "NotImplementedError"
       /\ call.ranking = NoRanking

\* C3: a search with neither an embedding nor an embedding function (and a
\* prompt to look for) ends with the outcome of the exact text search or with
\* a documented error, and runs no ranking step.
C3_TextSearchOnly ==
    (/\ call.op = "search"
     /\ call.args.embedding.t = "none"
     /\ call.args.embedding_function.t = "none"
     /\ call.args.prompt.t = "str")
    => /\ call.ranking = NoRanking
       /\ \/ call.out = exact_text_search(WholeView(dataset), call.args.prompt).out
          \/ /\ call.out.kind = "raise"
             /\ call.out.exc \in {"ValueError", "NotImplementedError", "CapabilityMissing"}

\* C5: the execution option a search runs under is the exec_option argument
\* when the caller names one, and the store's construction-time option when
\* the argument is omitted or None.
C5_EffectiveExecOption ==
    call.op = "search"
    => /\ call.passed.t = "str" => call.exec_option = call.passed
       /\ call.passed.t \in {"omitted", "none"} => call.exec_option = _exec_option

\* C7: delete with delete_all set returns true at once: the dataset is
\* dropped and nothing else is called (no id or filter resolution, no
\* deletion of rows, no commit), whatever ids and filter are.
C7_DeleteAllReturnsAtOnce ==
    (call.op = "delete" /\ Truthy(call.args.delete_all))
    => /\ call.out = Ret(PyBool(TRUE))
       /\ call.log = <<"delete_all_samples_if_specified">>
       /\ dataset = <<>>
       /\ dropped

\* delete_all was set on a dataset with rows, together with ids and a filter
C7_Witness ==
    /\ call.op = "delete"
    /\ Truthy(call.args.delete_all)
    /\ Truthy(call.args.ids)
    /\ Truthy(call.args.filter)
    /\ call.before # <<>>
    /\ call.out = Ret(PyBool(TRUE))

\* ------------------------------------------------------------------------
\* Properties of the functions of filter.py (specification SpecFilter)
\* ------------------------------------------------------------------------

\* the message names the id: it holds the id between backquotes
Names(msg, id) == IsSubstring(<<Backtick, id, Backtick>>, msg)

\* the sample indices of the rows of the view whose ids value is id
RowsWithId(view, id) ==
    SelectSeq(view.idx, LAMBDA n : DictGet(view.ds[n + 1], "ids") = PyStr(<<id>>))

Distinct(seq) == \A i, j \in 1..Len(seq) : i # j => seq[i] # seq[j]

\* C4: get_id_indices raises ValueError whenever the number of matched rows
\* differs from the number of requested ids, the error naming exactly the
\* requested ids that the dataset does not hold; with equal counts it
\* returns the indices of the matched rows (stated for requests and datasets
\* without duplicate ids).
C4_NamesTheMissingIds ==
    (/\ Done("get_id_indices")
     /\ Distinct(call.args.ids.v)
     /\ Distinct([i \in 1..Len(call.args.dataset.ds) |->
                     DictGet(call.args.dataset.ds[i], "ids")]))
    => LET view == call.args.dataset
           requested == {id \in RequestIds : PyIn(PyStr(<<id>>), call.args.ids.v)}
           matched == SelectSeq(view.idx,
                                LAMBDA n : \E id \in requested :
                                    DictGet(view.ds[n + 1], "ids") = PyStr(<<id>>))
       IN  IF Len(matched) # Len(call.args.ids.v)
           THEN /\ call.out.kind = "raise"
                /\ call.out.exc = "ValueError"
                /\ \A id \in RequestIds :
                      Names(call.out.msg, id)
                          <=> (id \in requested /\ Len(RowsWithId(view, id)) = 0)
           ELSE call.out = Ret(PyList([i \in 1..Len(matched) |-> PyInt(matched[i])]))

\* the filter is a mapping and the row satisfies it: every tensor it names
\* is a column of the row whose structured value has every listed key with
\* an equal value
Satisfies(x, filter) ==
    \A i \in 1..Len(filter.v) :
        /\ DictHas(x, filter.v[i][1])
        /\ \A j \in 1..Len(filter.v[i][2].v) :
              LET key == filter.v[i][2].v[j][1]
                  value == filter.v[i][2].v[j][2]
                  metadata == DictGet(x, filter.v[i][1]).v
              IN  \E m \in 1..Len(metadata) : metadata[m] = <<key, value>>

\* C6, as stated: get_converted_ids raises ValueError, before any filtering,
\* when a filter and a non-empty ids list are both supplied; with ids alone
\* its result is that of get_id_indices; with a filter alone its result is
\* that of get_filtered_ids, a ValueError when no row matches.
C6_AsStated ==
    Done("get_converted_ids")
    => LET a == call.args IN
       /\ (a.filter.t # "none" /\ Truthy(a.ids))
             => /\ call.out = Raise("ValueError", <<"Either filter or ids should be specified.">>)
                /\ call.log = <<>>
       /\ (a.filter.t = "none" /\ Truthy(a.ids))
             => [out |-> call.out, log |-> call.log] = get_id_indices(a.dataset, a.ids)
       /\ (a.filter.t # "none" /\ ~Truthy(a.ids))
             => /\ [out |-> call.out, log |-> call.log] = get_filtered_ids(a.dataset, a.filter)
                /\ (\A i \in 1..Len(a.dataset.ds) : ~Satisfies(a.dataset.ds[i], a.filter))
                      => call.out.kind = "raise" /\ call.out.exc = "ValueError"

\* C6, amended: the ValueError is raised, before any filtering, when a
\* non-empty filter and a non-empty ids list are both supplied; with a
\* non-empty ids list and a filter that is absent or empty the result is that
\* of get_id_indices; with a filter and ids absent or empty the result is
\* that of get_filtered_ids, a ValueError when no row matches.
C6_MutuallyExclusive ==
    Done("get_converted_ids")
    => LET a == call.args IN
       /\ (Truthy(a.filter) /\ Truthy(a.ids))
             => /\ call.out = Raise("ValueError", <<"Either filter or ids should be specified.">>)
                /\ call.log = <<>>
       /\ (~Truthy(a.filter) /\ Truthy(a.ids))
             => [out |-> call.out, log |-> call.log] = get_id_indices(a.dataset, a.ids)
       /\ (a.filter.t # "none" /\ ~Truthy(a.ids))
             => /\ [out |-> call.out, log |-> call.log] = get_filtered_ids(a.dataset, a.filter)
                /\ (\A i \in 1..Len(a.dataset.ds) : ~Satisfies(a.dataset.ds[i], a.filter))
                      => call.out.kind = "raise" /\ call.out.exc = "ValueError"

\* a non-empty filter and a non-empty ids list, each of which alone would
\* resolve to rows, were refused
C6_Witness ==
    /\ Done("get_converted_ids")
    /\ Truthy(call.args.filter) /\ Truthy(call.args.ids)
    /\ get_id_indices(call.args.dataset, call.args.ids).out.kind = "return"
    /\ get_filtered_ids(call.args.dataset, call.args.filter).out.kind = "return"
    /\ call.out.kind = "raise"

\* q occurs in s
Contains(q, s) ==
    \E i \in 0..Len(s) :
        /\ i + Len(q) <= Len(s)
        /\ \A j \in 1..Len(q) : s[i + j] = q[j]

\* s1 \o sep \o s2 \o sep ... \o sn
RECURSIVE Join(_, _)
Join(strings, sep) ==
    IF Len(strings) = 0 THEN <<>>
    ELSE IF Len(strings) = 1 THEN strings[1]
    ELSE strings[1] \o sep \o Join(Tail(strings), sep)

\* the clauses of one tensor of a filter, one per key, in the order of the keys
TensorClauses(tensor, items) ==
    [j \in 1..Len(items) |->
        Chars(tensor) \o <<"[", "'">> \o Chars(items[j][1]) \o <<"'", "]", " ", "=", "=", " ">>
            \o (IF items[j][2].t = "str"
                THEN <<"'">> \o items[j][2].v \o <<"'">>
                ELSE Format(items[j][2]))]

\* the clauses of a filter: tensors in order, then keys in order
RECURSIVE Clauses(_)
Clauses(filter) ==
    IF Len(filter) = 0 THEN <<>>
    ELSE TensorClauses(filter[1][1], filter[1][2].v) \o Clauses(Tail(filter))

And == <<" ", "a", "n", "d", " ">>

\* C8: attribute_based_filtering_tql returns the view it was given and, for
\* a mapping filter, the clauses tensor['key'] == literal in iteration order
\* joined by " and ", with no " and " before the first or after the last; the
\* fragment is empty when the filter is absent or has no key/value pair.
C8_FragmentOfClauses ==
    Done("attribute_based_filtering_tql")
    => LET filter == call.args.filter
           fragment == call.out.val[2]
       IN  /\ call.out.kind = "return"
           /\ call.out.val[1] = call.args.view
           /\ filter.t = "dict" => fragment = Join(Clauses(filter.v), And)
           /\ ~HasPair(filter) => fragment = <<>>
           /\ HasPair(filter)
                 => /\ Len(fragment) > 5
                    /\ SubSeq(fragment, Len(fragment) - 4, Len(fragment)) # And
                    /\ SubSeq(fragment, 1, 5) # And

\* a filter of two tensors with a key/value pair each, one value a str and
\* one an int of two digits, was translated
C8_Witness ==
    /\ Done("attribute_based_filtering_tql")
    /\ call.args.filter.t = "dict"
    /\ Len(call.args.filter.v) = 2
    /\ \A i \in 1..2 : Len(call.args.filter.v[i][2].v) > 0
    /\ call.args.filter.v[1][2].v[1][2] = PyStr(<<"v">>)
    /\ call.args.filter.v[2][2].v[1][2] = PyInt(10)
    /\ Contains(And, call.out.val[2])

\* C9: exact_text_search returns the view of exactly the rows whose text
\* contains the query, in view order, a score of 1.0 for each of them and
\* their sample indices; when no row matches, the view and the scores are
\* empty, the index is None, a warning is emitted and nothing is raised.
C9_ExactTextSearch ==
    (Done("exact_text_search") /\ call.args.query.t = "str")
    => LET view == call.args.view
           hit(n) == Contains(call.args.query.v, DictGet(view.ds[n + 1], "text").v)
           hits == {i \in 1..Len(view.idx) : hit(view.idx[i])}
       IN  /\ call.out.kind = "return"
           /\ LET filtered == call.out.val[1]
                  scores == call.out.val[2]
                  index == call.out.val[3]
              IN  /\ filtered.ds = view.ds
                  /\ Len(filtered.idx) = Cardinality(hits)
                  /\ \A i \in 1..Len(filtered.idx) :
                        \E h \in hits :
                            /\ filtered.idx[i] = view.idx[h]
                            /\ Cardinality({g \in hits : g < h}) = i - 1
                  /\ scores.t = "list" /\ Len(scores.v) = Cardinality(hits)
                  /\ \A i \in 1..Len(scores.v) : scores.v[i] = PyFloat(1)
                  /\ IF hits = {}
                     THEN /\ index = None
                          /\ \E i \in 1..Len(call.log) : call.log[i] = "always_warn"
                     ELSE /\ index = PyList([i \in 1..Len(filtered.idx) |->
                                                PyInt(filtered.idx[i])])
                          /\ \A i \in 1..Len(call.log) : call.log[i] # "always_warn"

\* a search that matched no row of a view that has rows
C9_Witness ==
    /\ Done("exact_text_search")
    /\ call.args.query.t = "str"
    /\ Len(call.args.view.idx) > 0
    /\ call.out.kind = "return"
    /\ Len(call.out.val[1].idx) = 0

\* C10: dp_filter_python(x, filter) is truthy if and only if the row x
\* satisfies the filter, for every row and every mapping filter.
C10_TruthyIffSatisfied ==
    Done("dp_filter_python")
    => ((call.out.kind = "return" /\ Truthy(call.out.val))
           <=> Satisfies(call.args.x, call.args.filter))

\* ------------------------------------------------------------------------
\* The frame of a refused delete (specification Spec)
\* ------------------------------------------------------------------------

\* the ids column of the rows ds
StoredIdsOf(ds) == [i \in 1..Len(ds) |-> DictGet(ds[i], "ids")]

\* the request names an id the rows ds hold, and one they do not hold
NamesPresentAndMissing(ids, ds) ==
    /\ ids.t = "list"
    /\ \E i \in 1..Len(ids.v) : PyIn(ids.v[i], StoredIdsOf(ds))
    /\ \E i \in 1..Len(ids.v) : ~PyIn(ids.v[i], StoredIdsOf(ds))

\* a delete call without delete_all that raised left the dataset as it was
\* and made no deletion and no commit; rows went only in a call whose
\* resolution succeeded, which deleted, committed and returned true
FailedDeleteChangesNothing ==
    /\ call.out.kind = "raise"
          => /\ dataset = call.before
             /\ \A i \in 1..Len(call.log) : call.log[i] # "delete_and_commit"
             /\ ~dropped
    /\ (dataset # call.before \/ \E i \in 1..Len(call.log) : call.log[i] = "delete_and_commit")
          => /\ call.out = Ret(PyBool(TRUE))
             /\ get_converted_ids(WholeView(call.before), call.args.filter,
                                  call.args.ids).out.kind = "return"
             /\ call.log[Len(call.log)] = "delete_and_commit"

\* C11, as stated: a delete call without delete_all that fails leaves the
\* dataset unchanged, with no row deleted and no commit made; rows are deleted
\* and committed only after the whole request resolved; so a request naming
\* some present and some missing ids deletes none of them.
C11_AsStated ==
    (call.op = "delete" /\ ~Truthy(call.args.delete_all))
    => /\ FailedDeleteChangesNothing
       /\ NamesPresentAndMissing(call.args.ids, call.before) => dataset = call.before

\* C11, amended: a delete call without delete_all that fails leaves the
\* dataset unchanged, with no row deleted and no commit made; rows are deleted
\* and committed only after the whole request resolved; so, on a dataset
\* whose stored ids are distinct, a request naming some present and some
\* missing ids is refused and deletes none of them.
C11_FailedDeleteChangesNothing ==
    (call.op = "delete" /\ ~Truthy(call.args.delete_all))
    => /\ FailedDeleteChangesNothing
       /\ (/\ NamesPresentAndMissing(call.args.ids, call.before)
           /\ Distinct(StoredIdsOf(call.before)))
             => /\ call.out.kind = "raise"
                /\ dataset = call.before

\* a request naming a stored id and a missing one, without delete_all and
\* without a filter, was refused on a dataset of two rows with distinct ids,
\* which it left whole
C11_Witness ==
    /\ call.op = "delete"
    /\ ~Truthy(call.args.delete_all)
    /\ ~Truthy(call.args.filter)
    /\ NamesPresentAndMissing(call.args.ids, call.before)
    /\ Len(call.before) = 2
    /\ Distinct(StoredIdsOf(call.before))
    /\ call.out.kind = "raise"
    /\ call.out.exc = "ValueError"
    /\ dataset = call.before

====
